---- MODULE Spec2Model ----
(***************************************************************************)
(* A model of src/unpackager.js (TurboWarp unpackager).                    *)
(*                                                                         *)
(* Two specifications share this module:                                   *)
(*   SpecCodec  the base-85 decoders, applied to bounded strings;          *)
(*   Spec       the unpackage() pipeline: zip search, the project.json     *)
(*              extractor, the binary-blob classifier and the ladder of    *)
(*              HTML patterns.                                             *)
(*                                                                         *)
(* Text handed to the base-85 decoders is a sequence of character codes    *)
(* (what charCodeAt returns); zip paths are sequences of one-character     *)
(* strings.  Both are indexed from 0 by the helpers below, as in the       *)
(* source.  Only ASCII text is modelled, so that TextEncoder's bytes are   *)
(* the character codes.                                                    *)
(***************************************************************************)
EXTENDS Integers, Sequences, FiniteSets, TLC

VARIABLES
  cstr,     \* codec: the string handed to a decoder
  clen,     \* codec: the byte length handed to the headerless decoder
  cpc,      \* codec: "ready" | "v123" | "v4"
  cout,     \* codec: what the decoder returned (ver: the variant that ran)
  input,    \* pipeline: the blob given to unpackage
  pc,       \* pipeline: the position of the unpackage call
  step,     \* pipeline: the HTML pattern the call is about to try
  evaluated,\* pipeline: the HTML patterns tried so far
  via,      \* pipeline: the code path that produced the outcome
  fed,      \* pipeline: the bytes handed to unpackageBinaryBlob, in a sequence
  result,   \* pipeline: the value the call returned
  error     \* pipeline: the error the call threw

codecVars == <<cstr, clen, cpc, cout>>
pipeVars == <<input, pc, step, evaluated, via, fed, result, error>>
vars == <<cstr, clen, cpc, cout, input, pc, step, evaluated, via, fed, result, error>>

(***************************************************************************)
(* Bounds of the model.                                                    *)
(***************************************************************************)
MaxLen == 5       \* longest base-85 payload (characters) drawn for the codec
MaxEntries == 3   \* most entries of an input archive
MaxMatches == 2   \* most regular expressions of the ladder an input text matches

(***************************************************************************)
(* JavaScript string helpers (0-based).                                    *)
(***************************************************************************)
At(s, i) == s[i + 1]

Min(a, b) == IF a < b THEN a ELSE b

Max(a, b) == IF a > b THEN a ELSE b

\* String.prototype.indexOf for a single character: -1 when absent.
indexOf(s, c) ==
  IF \E k \in 1..Len(s) : s[k] = c
    THEN (CHOOSE k \in 1..Len(s) : s[k] = c /\ \A m \in 1..(k - 1) : s[m] # c) - 1
    ELSE -1

\* String.prototype.substring: arguments are clamped to 0..length and swapped
\* when the first exceeds the second.
substring(s, a, b) ==
  LET ca == Max(0, Min(a, Len(s)))
      cb == Max(0, Min(b, Len(s)))
  IN  SubSeq(s, Min(ca, cb) + 1, Max(ca, cb))

includes(s, c) == \E k \in 1..Len(s) : s[k] = c

Comma == 44
Backslash == 92
IsDigitCode(c) == c >= 48 /\ c <= 57

\* A slip in the expression: /^\d*$/, which the empty header passes.
allDigits_star(header) == \A k \in 1..Len(header) : IsDigitCode(header[k])

\* /^\d+$/.test(header)
allDigits(header) == Len(header) > 0 /\ \A k \in 1..Len(header) : IsDigitCode(header[k])

\* Unary plus on a string of decimal digits ("" converts to 0).
RECURSIVE decimalValue(_)
decimalValue(digits) ==
  IF Len(digits) = 0 THEN 0
  ELSE 10 * decimalValue(SubSeq(digits, 1, Len(digits) - 1)) + (digits[Len(digits)] - 48)

(***************************************************************************)
(* Unsigned 32-bit arithmetic.  DataView.setUint32 stores its argument     *)
(* modulo 2^32; the sums below pass 2^31, so a word is kept as two 16-bit  *)
(* halves <<hi, lo>>.                                                      *)
(***************************************************************************)
Half == 256 * 256

u32(n) == IF n >= 0 THEN <<(n \div Half) % Half, n % Half>> ELSE <<Half - 1, Half + n>>

u32Add(x, y) ==
  LET s == x[2] + y[2]
  IN  <<(x[1] + y[1] + s \div Half) % Half, s % Half>>

u32Times85(x) ==
  LET p == x[2] * 85
  IN  <<(x[1] * 85 + p \div Half) % Half, p % Half>>

\* The four bytes setUint32(j, value, true) writes, lowest first.
littleEndian(x) == <<x[2] % 256, x[2] \div 256, x[1] % 256, x[1] \div 256>>

(***************************************************************************)
(* The base-85 decoders.                                                   *)
(***************************************************************************)
getValue_1(code) == IF code = 126 THEN 92 - 41 ELSE code - 41

\* A slip in version 2: the two replaced characters are not put back.
getValue_2_plain(code) == code - 42

getValue_2(code) ==
  LET c1 == IF code = 40 THEN 60 ELSE code
      c2 == IF c1 = 41 THEN 62 ELSE c1
  IN  c2 - 42

getValue_3(code) ==
  LET c1 == IF code = 40 THEN 60 ELSE code
      c2 == IF c1 = 41 THEN 62 ELSE c1
  IN  c2 - 42

getBase85DecodeValue(code) ==
  LET c1 == IF code = 40 THEN 60 ELSE code
      c2 == IF c1 = 41 THEN 62 ELSE c1
  IN  c2 - 42

getValue(ver, code) ==
  CASE ver = 1 -> getValue_1(code)
    [] ver = 2 -> getValue_2(code)
    [] ver = 3 -> getValue_3(code)
    [] OTHER -> getBase85DecodeValue(code)

toMultipleOfFour(n) == IF (n % 4) = 0 THEN n ELSE n + (4 - (n % 4))

\* The argument of setUint32 for the group starting at i, modulo 2^32.  A
\* character read past the end of the string is undefined (NaN), the sum is
\* then NaN, and setUint32 stores NaN as 0.
groupWord(ver, str, i) ==
  IF i + 4 >= Len(str) THEN u32(0)
  ELSE
    LET g(k) == u32(getValue(ver, At(str, i + k)))
    IN  u32Add(u32Add(u32Add(u32Add(
          u32Times85(u32Times85(u32Times85(u32Times85(g(4))))),
          u32Times85(u32Times85(u32Times85(g(3))))),
          u32Times85(u32Times85(g(2)))),
          u32Times85(g(1))),
          g(0))

Zeros(n) == [k \in 1..n |-> 0]

\* for (let i = ..., j = 0; i < str.length; i += 5, j += 4) view.setUint32(j, ..., true)
\* over a view of viewLen bytes; setUint32 throws a RangeError past the view.
RECURSIVE decodeLoop(_, _, _, _, _, _)
decodeLoop(ver, str, i, j, viewLen, buf) ==
  IF ~(i < Len(str)) THEN [err |-> "none", buffer |-> buf]
  ELSE IF j + 4 > viewLen THEN [err |-> "RangeError", buffer |-> buf]
  ELSE
    LET w == littleEndian(groupWord(ver, str, i))
    IN  decodeLoop(ver, str, i + 5, j + 4, viewLen,
          [k \in 1..Len(buf) |-> IF k > j /\ k <= j + 4 THEN w[k - j] ELSE buf[k]])

\* new Uint8Array(buffer, 0, byteLength) of a finished loop.
decoded(ver, run, byteLength) ==
  IF run.err # "none"
    THEN [err |-> run.err, ver |-> ver, bytes |-> <<>>, buffer |-> run.buffer]
    ELSE [err |-> "none", ver |-> ver, bytes |-> SubSeq(run.buffer, 1, byteLength),
          buffer |-> run.buffer]

decode_1(str) ==
  LET lengthEndsAt == indexOf(str, Comma)
      byteLength == decimalValue(substring(str, 0, lengthEndsAt))
      size == toMultipleOfFour(byteLength)
  IN  decoded(1, decodeLoop(1, str, lengthEndsAt + 1, 0, size, Zeros(size)), byteLength)

decode_2(str) ==
  LET lengthEndsAt == indexOf(str, Comma)
      byteLength == decimalValue(substring(str, 0, lengthEndsAt))
      size == toMultipleOfFour(byteLength)
  IN  decoded(2, decodeLoop(2, str, lengthEndsAt + 1, 0, size, Zeros(size)), byteLength)

\* The header of version 3, every character moved down by 49 and read as a
\* number: a number when every moved character is a decimal digit, 0 when the
\* header is empty, NaN otherwise.  NaN gives an empty buffer and an empty
\* result (ToIndex(NaN) = 0).  The headers drawn below hold no character that
\* moves to a sign, a point, an exponent or white space.
headerLength_3(header) ==
  LET moved == [k \in 1..Len(header) |-> header[k] - 49]
  IN  IF \A k \in 1..Len(moved) : IsDigitCode(moved[k]) THEN decimalValue(moved) ELSE 0

decode_3(str) ==
  LET lengthEndsAt == indexOf(str, Comma)
      byteLength == headerLength_3(substring(str, 0, lengthEndsAt))
      size == toMultipleOfFour(byteLength)
  IN  decoded(3, decodeLoop(3, str, lengthEndsAt + 1, 0, size, Zeros(size)), byteLength)

\* The variant decodeBase85WithLengthHeader selects.
selectVersion(str) ==
  LET header == substring(str, 0, indexOf(str, Comma))
  IN  IF allDigits(header)
        THEN IF includes(str, Backslash) THEN 2 ELSE 1
        ELSE 3

decodeBase85WithLengthHeader(str) ==
  CASE selectVersion(str) = 1 -> decode_1(str)
    [] selectVersion(str) = 2 -> decode_2(str)
    [] OTHER -> decode_3(str)

\* Version 4.  The DataView covers Math.floor(str.length / 5 * 4) bytes of a
\* buffer of Math.ceil(length / 4) * 4 bytes; its constructor throws a
\* RangeError when that is more than the buffer holds.
decodeBase85WithoutLengthHeader(str, length) ==
  LET size == ((length + 3) \div 4) * 4
      viewLen == (Len(str) * 4) \div 5
  IN  IF viewLen > size
        THEN [err |-> "RangeError", ver |-> 4, bytes |-> <<>>, buffer |-> Zeros(size)]
        ELSE decoded(4, decodeLoop(4, str, 0, 0, viewLen, Zeros(size)), length)

(***************************************************************************)
(* Zip paths and the two asset-name patterns.                              *)
(***************************************************************************)
Slash == <<"/">>

endsWith(s, suffix) ==
  Len(suffix) <= Len(s) /\ SubSeq(s, Len(s) - Len(suffix) + 1, Len(s)) = suffix

startsWith(s, prefix) == Len(prefix) <= Len(s) /\ SubSeq(s, 1, Len(prefix)) = prefix

\* name.split('/')
RECURSIVE split(_)
split(s) ==
  IF \E k \in 1..Len(s) : s[k] = "/"
    THEN LET k == CHOOSE k \in 1..Len(s) : s[k] = "/" /\ \A m \in 1..(k - 1) : s[m] # "/"
         IN  <<SubSeq(s, 1, k - 1)>> \o split(SubSeq(s, k + 1, Len(s)))
    ELSE <<s>>

\* parts.join('/')
RECURSIVE join(_)
join(parts) ==
  IF Len(parts) = 0 THEN <<>>
  ELSE IF Len(parts) = 1 THEN parts[1]
  ELSE parts[1] \o Slash \o join(Tail(parts))

getContainingFolder(name) ==
  LET parts == split(name)
  IN  join(SubSeq(parts, 1, Len(parts) - 1))

DecimalChars == {"0", "1", "2", "3", "4", "5", "6", "7", "8", "9"}

HexChars == DecimalChars \cup {"a", "b", "c", "d", "e", "f", "A", "B", "C", "D", "E", "F"}

AlnumChars ==
  DecimalChars \cup
  {"a", "b", "c", "d", "e", "f", "g", "h", "i", "j", "k", "l", "m",
   "n", "o", "p", "q", "r", "s", "t", "u", "v", "w", "x", "y", "z",
   "A", "B", "C", "D", "E", "F", "G", "H", "I", "J", "K", "L", "M",
   "N", "O", "P", "Q", "R", "S", "T", "U", "V", "W", "X", "Y", "Z"}

HashLen == 32
ExtLen == 3

\* \.[a-z0-9]{3}$ with the i flag
hasExtension(path) ==
  /\ Len(path) > ExtLen
  /\ path[Len(path) - ExtLen] = "."
  /\ \A k \in (Len(path) - ExtLen + 1)..Len(path) : path[k] \in AlnumChars

\* /^[a-f0-9]{32}\.[a-z0-9]{3}$/i.test(path)
isSb3AssetPath(path) ==
  /\ Len(path) = HashLen + 1 + ExtLen
  /\ hasExtension(path)
  /\ \A k \in 1..HashLen : path[k] \in HexChars

\* /^[0-9]+\.[a-z0-9]{3}$/i.test(path)
isSb2AssetPath(path) ==
  /\ Len(path) > 1 + ExtLen
  /\ hasExtension(path)
  /\ \A k \in 1..(Len(path) - ExtLen - 1) : path[k] \in DecimalChars

(***************************************************************************)
(* JSZip, as this program uses it.  A JSZip object is its files (the       *)
(* entries in key order, every key a full path, a folder's key ending in   *)
(* '/') and its root; folder() returns an object with another root over    *)
(* the same files.                                                         *)
(***************************************************************************)
Null == [null |-> TRUE]

File(name, data) == [name |-> name, dir |-> FALSE, data |-> data]

Folder(name) == [name |-> name, dir |-> TRUE, data |-> [bytes |-> <<>>]]

keys(files) == [k \in 1..Len(files) |-> files[k].name]

hasKey(files, name) == \E k \in 1..Len(files) : files[k].name = name

entryAt(files, name) == files[CHOOSE k \in 1..Len(files) : files[k].name = name]

deleteKeys(files, names) == SelectSeq(files, LAMBDA e : e.name \notin names)

\* zip.file(name): the entry at root + name unless it is a folder.
zipFile(zip, name) ==
  IF hasKey(zip.files, zip.root \o name) /\ ~entryAt(zip.files, zip.root \o name).dir
    THEN entryAt(zip.files, zip.root \o name)
    ELSE Null

\* zip.folder(arg): adds the folder's entry when it is missing.
zipFolder(zip, arg) ==
  IF arg = <<>> THEN zip
  ELSE
    LET name == zip.root \o arg \o Slash
    IN  [files |-> IF hasKey(zip.files, name) THEN zip.files
                   ELSE Append(zip.files, Folder(name)),
         root |-> name]

\* zip.forEach / zip.filter: the entries under the root, the root's own
\* entry excepted.
underRoot(zip) ==
  SelectSeq(zip.files, LAMBDA e : startsWith(e.name, zip.root) /\ Len(e.name) > Len(zip.root))

\* zip.remove(name)
zipRemove(zip, name) ==
  LET full == zip.root \o name
      asFolder == IF endsWith(full, Slash) THEN full ELSE full \o Slash
      target == IF hasKey(zip.files, full) THEN full ELSE asFolder
      kids == {underRoot(zip)[k].name : k \in {m \in 1..Len(underRoot(zip)) :
                 startsWith(underRoot(zip)[m].name, target)}}
  IN  [zip EXCEPT !.files =
         IF hasKey(zip.files, target) /\ ~entryAt(zip.files, target).dir
           THEN deleteKeys(zip.files, {target})
           ELSE deleteKeys(zip.files, kids)]

\* zipToArrayBuffer: generateAsync writes every entry under the root by its
\* path relative to the root, all with one date.
zipToArrayBuffer(zip) ==
  [zipOf |-> [k \in 1..Len(underRoot(zip)) |->
                [underRoot(zip)[k] EXCEPT
                   !.name = SubSeq(underRoot(zip)[k].name, Len(zip.root) + 1,
                                   Len(underRoot(zip)[k].name))]]]

\* Entry names.
n_project == <<"p", "r", "o", "j", "e", "c", "t">>
n_project_json == n_project \o <<".", "j", "s", "o", "n">>
n_project_zip == n_project \o <<".", "z", "i", "p">>
n_foo == <<"f", "o", "o">>
n_readme == <<"r", "e", "a", "d", "m", "e", ".", "t", "x", "t">>
n_sb2asset == <<"4", "2", ".", "s", "v", "g">>
n_hex12 == <<"a", "1", "b", "2", "c", "3", "d", "4", "e", "5", "f", "6">>
n_sb3asset == n_hex12 \o n_hex12 \o SubSeq(n_hex12, 1, 8) \o <<".", "p", "n", "g">>
n_digits32 == [k \in 1..HashLen |-> "0"] \o <<".", "W", "A", "V">>

JsonSb3 == [text |-> "{\"targets\":[]}"]
JsonSb2 == [text |-> "{\"objName\":\"Stage\"}"]
JsonBoth == [text |-> "{\"targets\":[],\"objName\":\"Stage\"}"]
JsonEmpty == [text |-> "{}"]
JsonNull == [text |-> "null"]
JsonBroken == [text |-> "{\"targets\":"]
Bytes0 == [bytes |-> <<>>]

\* Short byte strings that stand for serialized archives: a zip's bytes are
\* not spelled out, and the base-85 strings of the HTML inputs decode to these.
ZipFixtures ==
  [b \in {<<80, 75, 3>>, <<80, 75, 2>>, <<80, 75, 0>>} |->
     CASE b = <<80, 75, 3>> -> <<File(n_project_json, JsonSb3), File(n_sb3asset, Bytes0)>>
       [] b = <<80, 75, 2>> -> <<File(n_foo \o Slash \o n_project_json, JsonSb2)>>
       [] OTHER -> <<File(n_readme, Bytes0)>>]

\* unzipOrNull: JSZip.loadAsync, or null when it rejects.
unzipOrNull(data) ==
  IF "zipOf" \in DOMAIN data THEN [files |-> data.zipOf, root |-> <<>>]
  ELSE IF "bytes" \in DOMAIN data /\ data.bytes \in DOMAIN ZipFixtures
    THEN [files |-> ZipFixtures[data.bytes], root |-> <<>>]
  ELSE Null

findFileInZip(zip, path) ==
  IF zipFile(zip, path) # Null THEN zipFile(zip, path)
  ELSE IF \E k \in 1..Len(zip.files) : endsWith(zip.files[k].name, Slash \o path)
    THEN zipFile(zip, zip.files[CHOOSE k \in 1..Len(zip.files) :
                        /\ endsWith(zip.files[k].name, Slash \o path)
                        /\ \A m \in 1..(k - 1) :
                             ~endsWith(zip.files[m].name, Slash \o path)].name)
  ELSE Null

(***************************************************************************)
(* Outcomes: a returned {type, data} or a thrown error.  The five labeled  *)
(* errors are the ones the program throws itself; the others are thrown    *)
(* by the platform (a property read of null, DataView, JSON.parse, atob).  *)
(***************************************************************************)
Return(type, data) == [err |-> "none", type |-> type, data |-> data]

Throw(kind) == [err |-> kind, type |-> "none", data |-> Bytes0]

\* JSON.parse of the texts the inputs hold.
JSONparse(text) ==
  CASE text = "{\"targets\":[]}" -> [err |-> "none", object |-> TRUE, members |-> {"targets"}]
    [] text = "{\"objName\":\"Stage\"}" -> [err |-> "none", object |-> TRUE, members |-> {"objName"}]
    [] text = "{\"targets\":[],\"objName\":\"Stage\"}" ->
         [err |-> "none", object |-> TRUE, members |-> {"targets", "objName"}]
    [] text = "{}" -> [err |-> "none", object |-> TRUE, members |-> {}]
    [] text = "null" -> [err |-> "none", object |-> FALSE, members |-> {}]
    [] OTHER -> [err |-> "SyntaxError", object |-> FALSE, members |-> {}]

\* The in operator throws a TypeError when its right operand is no object.
identifyProjectJSONType(data) ==
  IF ~data.object THEN Throw("TypeError")
  ELSE IF "targets" \in data.members THEN Return("sb3", Bytes0)
  ELSE IF "objName" \in data.members THEN Return("sb2", Bytes0)
  ELSE Throw("AmbiguousOrUnknownProjectType")

unpackageBinaryBlob(data) ==
  LET projectZip == unzipOrNull(data)
      projectJSON == findFileInZip(projectZip, n_project_json)
      projectJSONData == JSONparse(projectJSON.data.text)
      type == identifyProjectJSONType(projectJSONData)
  IN  IF projectZip # Null
        THEN IF projectJSON = Null THEN Throw("TypeError")
             ELSE IF projectJSONData.err # "none" THEN Throw(projectJSONData.err)
             ELSE IF type.err # "none" THEN type
             ELSE Return(type.type, data)
        ELSE Return("sb", data)

\* A data URI is what the decoder reads of it: whether it holds ';base64,',
\* whether atob accepts what follows, and the bytes atob gives.
DataURI(marker, valid, decodedData) == [marker |-> marker, valid |-> valid, data |-> decodedData]

decodeDataURI(uri) ==
  IF ~uri.marker THEN Throw("DataURINotBase64")
  ELSE IF ~uri.valid THEN Throw("InvalidCharacterError")
  ELSE Return("none", uri.data)

(***************************************************************************)
(* unpackage, the zip branch.                                              *)
(***************************************************************************)
\* for (const path of Object.keys(innerZip.files)) { ... } over the keys as
\* they were when the loop began.
RECURSIVE removeExtraFiles(_, _, _, _, _)
removeExtraFiles(innerZip, paths, k, sb3Assets, sb2Assets) ==
  IF k > Len(paths)
    THEN [zip |-> innerZip, sb3Assets |-> sb3Assets, sb2Assets |-> sb2Assets]
  ELSE IF paths[k] = n_project_json
    THEN removeExtraFiles(innerZip, paths, k + 1, sb3Assets, sb2Assets)
  ELSE IF isSb3AssetPath(paths[k])
    THEN removeExtraFiles(innerZip, paths, k + 1, sb3Assets + 1, sb2Assets)
  ELSE IF isSb2AssetPath(paths[k])
    THEN removeExtraFiles(innerZip, paths, k + 1, sb3Assets, sb2Assets + 1)
  ELSE removeExtraFiles(zipRemove(innerZip, paths[k]), paths, k + 1, sb3Assets, sb2Assets)

guessType(sb3Assets, sb2Assets) == IF sb2Assets > 0 /\ sb3Assets = 0 THEN "sb2" ELSE "sb3"

extractProject(packagedZip, projectJSON) ==
  LET innerFolderPath == getContainingFolder(projectJSON.name)
      innerZip == zipFolder(packagedZip, innerFolderPath)
      kept == removeExtraFiles(innerZip, keys(innerZip.files), 1, 0, 0)
  IN  Return(guessType(kept.sb3Assets, kept.sb2Assets), zipToArrayBuffer(kept.zip))

\* A slip in the order of the two searches.
projectBinaryOf_projectFirst(packagedZip) ==
  IF findFileInZip(packagedZip, n_project) # Null
    THEN findFileInZip(packagedZip, n_project)
    ELSE findFileInZip(packagedZip, n_project_zip)

\* findFileInZip(packagedZip, 'project.zip') || findFileInZip(packagedZip, 'project')
projectBinaryOf(packagedZip) ==
  IF findFileInZip(packagedZip, n_project_zip) # Null
    THEN findFileInZip(packagedZip, n_project_zip)
    ELSE findFileInZip(packagedZip, n_project)

(***************************************************************************)
(* unpackage, the text branch.  A text is what the program's regular       *)
(* expressions capture from it: one field per expression, each the         *)
(* sequence of its matches.                                                *)
(***************************************************************************)
RECURSIVE concat(_)
concat(strs) == IF Len(strs) = 0 THEN <<>> ELSE strs[1] \o concat(Tail(strs))

RECURSIVE sum(_)
sum(nums) == IF Len(nums) = 0 THEN 0 ELSE nums[1] + sum(Tail(nums))

\* The decoded bytes, or the decoder's error.
fromDecoder(dec) == IF dec.err # "none" THEN Throw(dec.err) ELSE Return("none", [bytes |-> dec.bytes])

\* matchAll(text, /<script data="([^"]+)">decodeChunk\((\d+)\)<\/script>/g)
decodeChunks(text) ==
  LET base85 == concat([k \in 1..Len(text.chunks) |-> text.chunks[k].data])
      length == sum([k \in 1..Len(text.chunks) |-> text.chunks[k].length])
  IN  fromDecoder(decodeBase85WithoutLengthHeader(base85, length))

\* matchAll(text, /<script type="p4-project">([^<]+)<\/script>/g)
decodeP4Project(text) == fromDecoder(decodeBase85WithLengthHeader(concat(text.p4project)))

\* text.match(/const result = base85decode\("(.+)"\);/) || text.match(/<script id="p4-encoded-project-data" ...
base85MatchOf(text) ==
  IF text.base85decode # <<>> THEN text.base85decode ELSE text.encodedProjectData

decodeBase85Match(text) == fromDecoder(decodeBase85WithLengthHeader(base85MatchOf(text)[1]))

\* The three data URI expressions, in the order of the || chain.
dataURIMatchOf(text) ==
  IF text.getProjectData # <<>> THEN text.getProjectData
  ELSE IF text.varProject # <<>> THEN text.varProject
  ELSE text.packagerProjectData

n_file == <<"f", "i", "l", "e">>

hasAsset(assets, name) == \E k \in 1..Len(assets) : assets[k].name = name

assetAt(assets, name) == assets[CHOOSE k \in 1..Len(assets) : assets[k].name = name]

\* newZip.file(name, data): a new key goes last, an old one keeps its place.
zipAddFile(zip, name, data) ==
  IF hasKey(zip.files, zip.root \o name)
    THEN [zip EXCEPT !.files = [k \in 1..Len(zip.files) |->
           IF zip.files[k].name = zip.root \o name THEN File(zip.root \o name, data)
           ELSE zip.files[k]]]
    ELSE [zip EXCEPT !.files = Append(zip.files, File(zip.root \o name, data))]

\* for (const name of Object.keys(assets)) newZip.file(..., decodeDataURI(assets[name]))
RECURSIVE addAssets(_, _, _, _)
addAssets(newZip, assets, k, renameProject) ==
  IF k > Len(assets) THEN Return("sb3", zipToArrayBuffer(newZip))
  ELSE
    LET nameInZip == IF renameProject /\ assets[k].name = n_project
                       THEN n_project_json ELSE assets[k].name
        decodedAsset == decodeDataURI(assets[k].uri)
    IN  IF decodedAsset.err # "none" THEN decodedAsset
        ELSE addAssets(zipAddFile(newZip, nameInZip, decodedAsset.data), assets, k + 1,
                       renameProject)

EmptyZip == [files |-> <<>>, root |-> <<>>]

\* The initOptions object: JSON.parse may throw, .assets may be undefined.
htmlifierInitOptions(options) ==
  IF options.err # "none" THEN Throw(options.err)
  ELSE IF ~options.hasAssets THEN Throw("TypeError")
  ELSE IF hasAsset(options.assets, n_file)
    THEN LET decodedProjectData == decodeDataURI(assetAt(options.assets, n_file).uri)
         IN  IF decodedProjectData.err # "none" THEN decodedProjectData
             ELSE Return("sb", decodedProjectData.data)
  ELSE addAssets(EmptyZip, options.assets, 1, TRUE)

\* The PROJECT_JSON and ASSETS constants.
htmlifierLegacy(legacy) ==
  LET projectJSON == decodeDataURI(legacy.projectJSON)
  IN  IF projectJSON.err # "none" THEN projectJSON
      ELSE IF legacy.assetsErr # "none" THEN Throw(legacy.assetsErr)
      ELSE addAssets(zipAddFile(EmptyZip, n_project_json, projectJSON.data),
                     legacy.assets, 1, FALSE)

\* A slip in the order of the ladder: the single blob before the p4-project tags.
patternAt_swapped(position) ==
  IF position = 2 THEN 3 ELSE IF position = 3 THEN 2 ELSE position

\* The pattern tried at each position of the ladder.
patternAt(position) == position

\* A fallback the program does not have: bytes that hold no project taken for
\* a Scratch 1 binary.
noProjectFound_assumeSb(blob) == Return("sb", blob)

\* throw new Error('Input was not a zip and we could not find project.')
noProjectFound(blob) == Throw("NoProjectFound")

\* Whether pattern p's expressions match the text.
matches(p, text) ==
  CASE p = 1 -> text.chunks # <<>>
    [] p = 2 -> text.p4project # <<>>
    [] p = 3 -> base85MatchOf(text) # <<>>
    [] p = 4 -> dataURIMatchOf(text) # <<>>
    [] p = 5 -> text.initOptions # <<>>
    [] OTHER -> text.legacyJSON # <<>>

\* What patterns 1 to 4 hand to unpackageBinaryBlob, or the decoder's error.
payloadOf(p, text) ==
  CASE p = 1 -> decodeChunks(text)
    [] p = 2 -> decodeP4Project(text)
    [] p = 3 -> decodeBase85Match(text)
    [] OTHER -> decodeDataURI(dataURIMatchOf(text)[1])

\* What the body of pattern p's if statement returns or throws.
patternOutcome(p, text) ==
  IF p <= 4
    THEN IF payloadOf(p, text).err # "none" THEN payloadOf(p, text)
         ELSE unpackageBinaryBlob(payloadOf(p, text).data)
  ELSE IF p = 5 THEN htmlifierInitOptions(text.initOptions[1])
  ELSE htmlifierLegacy(text.legacyJSON[1])

patternFeeds(p, text) ==
  IF p <= 4 /\ payloadOf(p, text).err = "none" THEN <<payloadOf(p, text).data>> ELSE <<>>

(***************************************************************************)
(* The inputs of unpackage.                                                *)
(***************************************************************************)
ScratchBinary == [bytes |-> <<83, 99, 114>>]

ZipOf(files) == [zipOf |-> files]

\* What a project.zip entry may hold.
EmbeddedZips ==
  { ScratchBinary,
    ZipOf(<<File(n_project_json, JsonSb3), File(n_sb3asset, Bytes0)>>),
    ZipOf(<<File(n_sb2asset, Bytes0), File(n_project_json, JsonSb2)>>),
    ZipOf(<<File(n_foo \o Slash \o n_project_json, JsonSb3)>>),
    ZipOf(<<File(n_project_json, JsonBoth)>>),
    ZipOf(<<File(n_project_json, JsonEmpty)>>),
    ZipOf(<<File(n_project_json, JsonNull)>>),
    ZipOf(<<File(n_project_json, JsonBroken)>>),
    ZipOf(<<File(n_readme, Bytes0)>>) }

\* What a project entry may hold.
EmbeddedBinaries ==
  { ScratchBinary,
    [bytes |-> <<83, 99, 114, 50>>],
    ZipOf(<<File(n_project_json, JsonSb2)>>) }

\* The entries an input archive is drawn from, in archive order.
Candidates(zipData, binaryData) ==
  << File(n_project_json, JsonSb3),
     Folder(n_foo \o Slash),
     File(n_foo \o Slash \o n_project_json, JsonSb2),
     File(n_project_zip, zipData),
     File(n_foo \o Slash \o n_project_zip, zipData),
     File(n_project, binaryData),
     File(n_foo \o Slash \o n_project, binaryData),
     File(n_readme, Bytes0),
     File(n_foo \o Slash \o n_readme, Bytes0),
     File(n_sb2asset, Bytes0),
     File(n_foo \o Slash \o n_sb2asset, Bytes0),
     File(n_sb3asset, Bytes0),
     File(n_foo \o Slash \o n_sb3asset, Bytes0),
     File(n_digits32, Bytes0),
     File(<<"x">> \o n_project_json, JsonSb3) >>

RECURSIVE pick(_, _)
pick(entries, chosen) ==
  IF chosen = {} THEN <<>>
  ELSE LET m == CHOOSE m \in chosen : \A n \in chosen : m <= n
       IN  <<entries[m]>> \o pick(entries, chosen \ {m})

ZipInputs ==
  { ZipOf(pick(Candidates(zipData, binaryData), chosen)) :
      zipData \in EmbeddedZips, binaryData \in EmbeddedBinaries,
      chosen \in {c \in SUBSET (DOMAIN Candidates(Bytes0, Bytes0)) :
                   Cardinality(c) <= MaxEntries} }

GoodURI(data) == DataURI(TRUE, TRUE, data)

Asset(name, uri) == [name |-> name, uri |-> uri]

ChunkMatches ==
  { <<>>,
    <<[data |-> <<115, 116, 71, 42, 42>>, length |-> 3]>>,
    <<[data |-> <<112, 98, 44>>, length |-> 1], [data |-> <<42, 42>>, length |-> 2]>>,
    <<[data |-> <<83, 91, 59, 54, 42, 42>>, length |-> 3]>> }

P4ProjectMatches ==
  { <<>>,
    <<<<51, 44, 82, 90>>, <<58, 53, 41>>>>,
    <<<<100, 44, 114, 110, 41, 42, 42>>>>,
    <<<<51, 44, 82, 90, 58, 53, 41>>, <<82, 90, 58, 53, 41>>>> }

Base85DecodeMatches == {<<>>, <<<<51, 44, 114, 115, 70, 41, 41>>>>}

EncodedProjectDataMatches == {<<>>, <<<<100, 44, 83, 91, 59, 54, 42>>>>, <<<<83, 91, 59, 54, 42>>>>}

GetProjectDataMatches ==
  { <<>>,
    <<GoodURI([bytes |-> <<80, 75, 3>>])>>,
    <<DataURI(FALSE, TRUE, Bytes0)>>,
    <<DataURI(TRUE, FALSE, Bytes0)>> }

VarProjectMatches == {<<>>, <<GoodURI(ScratchBinary)>>}

PackagerProjectDataMatches == {<<>>, <<GoodURI([bytes |-> <<80, 75, 2>>])>>}

InitOptionsMatches ==
  { <<>>,
    <<[err |-> "none", hasAssets |-> TRUE,
       assets |-> <<Asset(n_file, GoodURI(ScratchBinary))>>]>>,
    <<[err |-> "none", hasAssets |-> TRUE,
       assets |-> <<Asset(n_project, GoodURI(JsonSb3)), Asset(n_sb3asset, GoodURI(Bytes0))>>]>>,
    <<[err |-> "none", hasAssets |-> TRUE,
       assets |-> <<Asset(n_sb3asset, GoodURI(Bytes0))>>]>>,
    <<[err |-> "none", hasAssets |-> TRUE,
       assets |-> <<Asset(n_project, DataURI(FALSE, TRUE, Bytes0))>>]>>,
    <<[err |-> "none", hasAssets |-> FALSE, assets |-> <<>>]>>,
    <<[err |-> "SyntaxError", hasAssets |-> FALSE, assets |-> <<>>]>> }

LegacyJSONMatches ==
  { <<>>,
    <<[projectJSON |-> GoodURI(JsonSb3), assetsErr |-> "none",
       assets |-> <<Asset(n_sb3asset, GoodURI(Bytes0))>>]>>,
    <<[projectJSON |-> DataURI(FALSE, TRUE, Bytes0), assetsErr |-> "none", assets |-> <<>>]>>,
    <<[projectJSON |-> GoodURI(JsonSb3), assetsErr |-> "SyntaxError", assets |-> <<>>]>> }

matchCount(text) ==
  Cardinality({f \in DOMAIN text : text[f] # <<>>})

Texts ==
  { t \in [chunks : ChunkMatches, p4project : P4ProjectMatches,
           base85decode : Base85DecodeMatches,
           encodedProjectData : EncodedProjectDataMatches,
           getProjectData : GetProjectDataMatches, varProject : VarProjectMatches,
           packagerProjectData : PackagerProjectDataMatches,
           initOptions : InitOptionsMatches, legacyJSON : LegacyJSONMatches] :
      matchCount(t) <= MaxMatches }

\* A blob that is no zip: its bytes, whether FileReader can read it, its text.
TextInputs ==
  { [bytes |-> ScratchBinary.bytes, readable |-> TRUE, text |-> t] : t \in Texts }
    \cup { [bytes |-> ScratchBinary.bytes, readable |-> FALSE,
            text |-> CHOOSE t \in Texts : matchCount(t) = 0] }

(***************************************************************************)
(* The pipeline specification: one call of unpackage.                      *)
(***************************************************************************)
NoResult == [type |-> "none", data |-> Bytes0]

NoOutput == [err |-> "none", ver |-> 0, bytes |-> <<>>, buffer |-> <<>>]

CodecIdle ==
  /\ cstr = <<>>
  /\ clen = 0
  /\ cpc = "idle"
  /\ cout = NoOutput

Init ==
  /\ input \in ZipInputs \cup TextInputs
  /\ pc = "start"
  /\ step = 0
  /\ evaluated = {}
  /\ via = "none"
  /\ fed = <<>>
  /\ result = NoResult
  /\ error = "none"
  /\ CodecIdle

Finish(outcome, how) ==
  /\ pc' = IF outcome.err = "none" THEN "done" ELSE "failed"
  /\ result' = IF outcome.err = "none"
                 THEN [type |-> outcome.type, data |-> outcome.data] ELSE NoResult
  /\ error' = outcome.err
  /\ via' = how

\* const packagedZip = await unzipOrNull(blob)
Open ==
  /\ pc = "start"
  /\ pc' = IF unzipOrNull(input) # Null THEN "zip" ELSE "text"
  /\ UNCHANGED <<input, step, evaluated, via, fed, result, error>>
  /\ UNCHANGED codecVars

ExtractProject ==
  /\ pc = "zip"
  /\ findFileInZip(unzipOrNull(input), n_project_json) # Null
  /\ Finish(extractProject(unzipOrNull(input),
                           findFileInZip(unzipOrNull(input), n_project_json)), "extractor")
  /\ UNCHANGED <<input, step, evaluated, fed>>
  /\ UNCHANGED codecVars

ClassifyProjectBinary ==
  /\ pc = "zip"
  /\ findFileInZip(unzipOrNull(input), n_project_json) = Null
  /\ projectBinaryOf(unzipOrNull(input)) # Null
  /\ fed' = <<projectBinaryOf(unzipOrNull(input)).data>>
  /\ Finish(unpackageBinaryBlob(projectBinaryOf(unzipOrNull(input)).data), "blob")
  /\ UNCHANGED <<input, step, evaluated>>
  /\ UNCHANGED codecVars

NoProjectInZip ==
  /\ pc = "zip"
  /\ findFileInZip(unzipOrNull(input), n_project_json) = Null
  /\ projectBinaryOf(unzipOrNull(input)) = Null
  /\ Finish(Throw("ZipMissingProject"), "zip")
  /\ UNCHANGED <<input, step, evaluated, fed>>
  /\ UNCHANGED codecVars

\* const text = await readAsText(blob)
ReadAsText ==
  /\ pc = "text"
  /\ IF input.readable
       THEN /\ pc' = "ladder"
            /\ step' = 1
            /\ UNCHANGED <<via, result, error>>
       ELSE /\ Finish(Throw("BlobReadFailure"), "readAsText")
            /\ UNCHANGED step
  /\ UNCHANGED <<input, evaluated, fed>>
  /\ UNCHANGED codecVars

PatternNames ==
  <<"decodeChunk", "p4-project", "base85-blob", "data-uri", "initOptions", "legacy-json">>

\* One rung of the ladder: the expressions of the pattern at this position are
\* run; on a match the if body returns or throws, else the next rung is tried.
TryPattern(position) ==
  /\ pc = "ladder"
  /\ step = position
  /\ evaluated' = evaluated \cup {patternAt(position)}
  /\ IF matches(patternAt(position), input.text)
       THEN /\ Finish(patternOutcome(patternAt(position), input.text),
                      PatternNames[patternAt(position)])
            /\ fed' = patternFeeds(patternAt(position), input.text)
            /\ UNCHANGED step
       ELSE /\ step' = position + 1
            /\ UNCHANGED <<pc, via, fed, result, error>>
  /\ UNCHANGED input
  /\ UNCHANGED codecVars

TryDecodeChunks == TryPattern(1)

TryP4Project == TryPattern(2)

TryBase85Match == TryPattern(3)

TryDataURI == TryPattern(4)

TryInitOptions == TryPattern(5)

TryLegacyJSON == TryPattern(6)

NoProjectFound ==
  /\ pc = "ladder"
  /\ step > 6
  /\ Finish(noProjectFound(input), "ladder")
  /\ UNCHANGED <<input, step, evaluated, fed>>
  /\ UNCHANGED codecVars

Next ==
  \/ Open
  \/ ExtractProject
  \/ ClassifyProjectBinary
  \/ NoProjectInZip
  \/ ReadAsText
  \/ TryDecodeChunks
  \/ TryP4Project
  \/ TryBase85Match
  \/ TryDataURI
  \/ TryInitOptions
  \/ TryLegacyJSON
  \/ NoProjectFound

Spec == Init /\ [][Next]_vars

(***************************************************************************)
(* The codec specification: a string is drawn, then one of the two         *)
(* exported decoders is applied to it.                                     *)
(***************************************************************************)
CodecChars == {40, 41, 60, 62, 92, 126}

CodecHeaders == {<<>>, <<49>>, <<52>>, <<101>>}

\* Strings drawn besides the exhaustive short ones: a digit before a missing
\* comma, a mixed header, '>' and '}' in a group, two groups, a two-digit
\* header.
CodecFixtures ==
  { <<52, 40, 41>>,
    <<52, 101, 44, 40, 40, 40, 40, 40>>,
    <<52, 44, 62, 60, 125, 125, 125>>,
    <<52, 44, 62, 92, 60, 126, 126>>,
    <<56, 44, 126, 126, 126, 126, 126, 41, 41, 41, 41, 41>>,
    <<56, 44, 92, 126, 126, 126, 126, 62, 62, 62, 62, 62>>,
    <<105, 44, 40, 41, 60, 62, 126, 126, 126, 126, 126, 126>>,
    <<49, 50, 44, 41, 42, 43, 44, 45>>,
    <<49, 50, 101>> }

CodecPayloads == UNION {[1..n -> CodecChars] : n \in 0..MaxLen}

CodecStrings ==
  {h \o <<Comma>> \o p : h \in CodecHeaders, p \in CodecPayloads}
    \cup CodecPayloads \cup CodecFixtures

CodecLengths == {0, 3, 4, 8}

PipeIdle ==
  /\ input = Bytes0
  /\ pc = "idle"
  /\ step = 0
  /\ evaluated = {}
  /\ via = "none"
  /\ fed = <<>>
  /\ result = NoResult
  /\ error = "none"

CodecInit ==
  /\ cstr \in CodecStrings
  /\ clen = 0
  /\ cpc = "ready"
  /\ cout = NoOutput
  /\ PipeIdle

DecodeWithHeader ==
  /\ cpc = "ready"
  /\ cout' = decodeBase85WithLengthHeader(cstr)
  /\ cpc' = "v123"
  /\ UNCHANGED <<cstr, clen>>
  /\ UNCHANGED pipeVars

DecodeWithoutHeader ==
  /\ cpc = "ready"
  /\ \E length \in CodecLengths :
       /\ clen' = length
       /\ cout' = decodeBase85WithoutLengthHeader(cstr, length)
  /\ cpc' = "v4"
  /\ UNCHANGED cstr
  /\ UNCHANGED pipeVars

CodecNext == DecodeWithHeader \/ DecodeWithoutHeader

SpecCodec == CodecInit /\ [][CodecNext]_vars

(***************************************************************************)
(* Properties of the codec, checked under SpecCodec.                       *)
(***************************************************************************)
HasComma == \E k \in 1..Len(cstr) : cstr[k] = 44

FirstComma == CHOOSE k \in 1..Len(cstr) : cstr[k] = 44 /\ \A m \in 1..(k - 1) : cstr[m] # 44

\* The text before the first comma, and the text after it.
HeaderText == IF HasComma THEN SubSeq(cstr, 1, FirstComma - 1) ELSE <<>>

PayloadText == IF HasComma THEN SubSeq(cstr, FirstComma + 1, Len(cstr)) ELSE <<>>

DigitHeader ==
  HasComma /\ HeaderText # <<>> /\ \A k \in 1..Len(HeaderText) : HeaderText[k] \in 48..57

SelectsV1 == DigitHeader /\ \A k \in 1..Len(cstr) : cstr[k] # 92

SelectsV2 == DigitHeader /\ \E k \in 1..Len(PayloadText) : PayloadText[k] = 92

SelectsV3 == ~DigitHeader

\* C7: for every string handed to the header-bearing decoder, v1 runs iff the
\* header (the text before the first comma) is a non-empty string of decimal
\* digits and the string holds no backslash, v2 iff the header is such a string
\* and the payload holds a backslash, v3 in every other case (empty header,
\* missing comma, a non-digit in the header); exactly one of the three applies.
C7_VariantSelection ==
  cpc = "v123" =>
    /\ cout.ver \in {1, 2, 3}
    /\ (cout.ver = 1) <=> SelectsV1
    /\ (cout.ver = 2) <=> SelectsV2
    /\ (cout.ver = 3) <=> SelectsV3
    /\ Cardinality({v \in {1, 2, 3} :
         \/ v = 1 /\ SelectsV1
         \/ v = 2 /\ SelectsV2
         \/ v = 3 /\ SelectsV3}) = 1

\* C7 witness: a digit header followed by a payload with a backslash, decoded by v2.
C7_Witness ==
  /\ cpc = "v123"
  /\ cout.ver = 2
  /\ DigitHeader
  /\ \E k \in 1..Len(PayloadText) : PayloadText[k] = 92

\* Where the decoder that ran began to read groups (0-based).
GroupsStart == IF cpc = "v4" THEN 0 ELSE IF HasComma THEN FirstComma ELSE 0

FullGroups == (Len(cstr) - GroupsStart) \div 5

\* The digit the decoder gives a character code: in v1, 0x7E acts as 0x5C and
\* the digit is code - 0x29; in v2, v3 and v4, 0x28 acts as 0x3C, 0x29 as 0x3E
\* and the digit is code - 0x2A.
DecoderDigit(ver, code) ==
  IF ver = 1 THEN (IF code = 126 THEN 92 ELSE code) - 41
  ELSE (IF code = 40 THEN 60 ELSE IF code = 41 THEN 62 ELSE code) - 42

\* The digit as the specification's table words it: in v1, 0x5C acts as 0x7E;
\* in v2, v3 and v4, 0x3C acts as 0x28 and 0x3E as 0x29.
TableDigit(ver, code) ==
  IF ver = 1 THEN (IF code = 92 THEN 126 ELSE code) - 41
  ELSE (IF code = 60 THEN 40 ELSE IF code = 62 THEN 41 ELSE code) - 42

\* The little-endian bytes of b4*85^4 + b3*85^3 + b2*85^2 + b1*85 + b0 modulo
\* 2^32, for digits b = <<b0, .., b4>>: computed in the integers when the sum
\* stays below 2^31, by Horner's rule on 16-bit halves otherwise.
WordBytes(b) ==
  IF (\A k \in 1..5 : b[k] >= 0 /\ b[k] <= 84) /\ b[5] <= 40
    THEN LET n == b[5] * 52200625 + b[4] * 614125 + b[3] * 7225 + b[2] * 85 + b[1]
         IN  <<n % 256, (n \div 256) % 256, (n \div 65536) % 256, n \div 16777216>>
    ELSE littleEndian(
           u32Add(u32Times85(u32Add(u32Times85(u32Add(u32Times85(u32Add(u32Times85(
             u32(b[5])), u32(b[4]))), u32(b[3]))), u32(b[2]))), u32(b[1])))

GroupBytesAre(asTabled) ==
  \A g \in 0..(FullGroups - 1) :
    LET digit(code) == IF asTabled THEN TableDigit(cout.ver, code)
                       ELSE DecoderDigit(cout.ver, code)
        b == [k \in 1..5 |-> digit(cstr[GroupsStart + 5 * g + k])]
    IN  SubSeq(cout.buffer, 4 * g + 1, 4 * g + 4) = WordBytes(b)

\* C8 as amended: every decoder gives each character the digit DecoderDigit
\* says, and every full group of five characters with digits b0..b4 is written
\* as the four little-endian bytes of b4*85^4 + ... + b0 modulo 2^32.
C8_DecoderDigits ==
  (cpc \in {"v123", "v4"} /\ cout.err = "none") => GroupBytesAre(FALSE)

\* C8 as stated: the same with the digits of the specification's table, where
\* 0x5C acts as 0x7E in v1 and 0x3C, 0x3E act as 0x28, 0x29 in v2, v3 and v4.
C8_TableDigits ==
  (cpc \in {"v123", "v4"} /\ cout.err = "none") => GroupBytesAre(TRUE)

\* C8 witness: v2 decoded a full group that holds '(' and ends in '~' (digit
\* 84, so the sum passes 2^32).
C8_Witness ==
  /\ cpc = "v123"
  /\ cout.ver = 2
  /\ cout.err = "none"
  /\ Len(cout.bytes) = 4
  /\ FullGroups = 1
  /\ \E k \in 1..5 : cstr[GroupsStart + k] = 40
  /\ cstr[GroupsStart + 5] = 126

(***************************************************************************)
(* Properties of the pipeline, checked under Spec.                         *)
(***************************************************************************)
Ended == pc \in {"done", "failed"}

IsZipInput == "zipOf" \in DOMAIN input

IsTextInput == "text" \in DOMAIN input

\* An entry matches a name when its path is the name or ends with '/' + name.
MatchesName(entry, name) ==
  ~entry.dir /\ (entry.name = name \/ endsWith(entry.name, <<"/">> \o name))

InputHas(name) == \E k \in 1..Len(input.zipOf) : MatchesName(input.zipOf[k], name)

FedFromEntry(name) ==
  \E k \in 1..Len(input.zipOf) : MatchesName(input.zipOf[k], name) /\ fed = <<input.zipOf[k].data>>

\* C1: an input that opens as a zip is searched for project.json, then
\* project.zip, then project: with project.json matched the outcome is the
\* extractor's, whatever else is present; else with project.zip matched its
\* bytes go to the binary-blob classifier, even beside project; else project's
\* bytes go there; with none matched the call fails with the 'no project in
\* zip' error.  No HTML pattern is ever tried.
C1_ZipSearchPriority ==
  (Ended /\ IsZipInput) =>
    /\ evaluated = {}
    /\ IF InputHas(n_project_json) THEN via = "extractor" /\ fed = <<>>
       ELSE IF InputHas(n_project_zip) THEN via = "blob" /\ FedFromEntry(n_project_zip)
       ELSE IF InputHas(n_project) THEN via = "blob" /\ FedFromEntry(n_project)
       ELSE pc = "failed" /\ error = "ZipMissingProject" /\ fed = <<>>

\* C1 witness: project.zip and project are both present with different bytes,
\* project.json is not, and the classifier has run.
C1_Witness ==
  /\ pc = "done"
  /\ IsZipInput
  /\ ~InputHas(n_project_json)
  /\ InputHas(n_project_zip)
  /\ InputHas(n_project)
  /\ ~FedFromEntry(n_project)
  /\ via = "blob"

\* The folder of the project.json the search finds: the root when the archive
\* has a project.json there, else the folder of the entry that ends with
\* '/project.json'.
FoundFolder ==
  IF \E k \in 1..Len(input.zipOf) : input.zipOf[k].name = n_project_json THEN <<>>
  ELSE LET e == input.zipOf[CHOOSE k \in 1..Len(input.zipOf) :
                    /\ MatchesName(input.zipOf[k], n_project_json)
                    /\ \A m \in 1..(k - 1) : ~MatchesName(input.zipOf[m], n_project_json)]
       IN  SubSeq(e.name, 1, Len(e.name) - Len(n_project_json))

\* The names, relative to that folder, of the entries in it.
FolderEntryNames ==
  { SubSeq(input.zipOf[k].name, Len(FoundFolder) + 1, Len(input.zipOf[k].name)) :
      k \in {m \in 1..Len(input.zipOf) :
               /\ startsWith(input.zipOf[m].name, FoundFolder)
               /\ Len(input.zipOf[m].name) > Len(FoundFolder)} }

ReturnedNames == {result.data.zipOf[k].name : k \in 1..Len(result.data.zipOf)}

\* C2: with project.json found, the extractor returns sb2 iff some entry of the
\* containing folder is sb2-shaped and none is sb3-shaped, and sb3 otherwise.
C2_Sb2IffOnlySb2Assets ==
  (pc = "done" /\ via = "extractor") =>
    /\ result.type \in {"sb2", "sb3"}
    /\ (result.type = "sb2") <=>
         /\ \E n \in FolderEntryNames : isSb2AssetPath(n)
         /\ ~\E n \in FolderEntryNames : isSb3AssetPath(n)

\* C3: with project.json found, at the root or in a subfolder, the returned
\* archive holds project.json and every sb2- or sb3-shaped entry of the
\* containing folder, and no entry of neither shape.
C3_OnlyProjectFilesKept ==
  (pc = "done" /\ via = "extractor") =>
    /\ n_project_json \in ReturnedNames
    /\ \A n \in FolderEntryNames :
         (isSb2AssetPath(n) \/ isSb3AssetPath(n)) => n \in ReturnedNames
    /\ \A n \in ReturnedNames :
         n = n_project_json \/ isSb2AssetPath(n) \/ isSb3AssetPath(n)

\* The members of the JSON object in the project.json of a payload (none when
\* there is no such entry or it holds no JSON object).
PayloadMembers(data) ==
  LET files == unzipOrNull(data).files
  IN  IF \E k \in 1..Len(files) : MatchesName(files[k], n_project_json)
        THEN LET e == files[CHOOSE k \in 1..Len(files) : MatchesName(files[k], n_project_json)]
             IN  JSONparse(e.data.text).members
        ELSE {}

\* C4: the binary-blob classifier, for every payload: one that opens as a zip
\* gives sb3 when the JSON of its project.json has 'targets', sb2 when it has
\* 'objName' and not 'targets', and the 'cannot determine project type' error
\* when it has neither; one that does not open as a zip gives sb; whatever is
\* returned carries the payload itself.
C4_BlobClassifier ==
  (Ended /\ fed # <<>>) =>
    /\ pc = "done" => result.data = fed[1]
    /\ IF unzipOrNull(fed[1]) = Null THEN pc = "done" /\ result.type = "sb"
       ELSE IF "targets" \in PayloadMembers(fed[1]) THEN pc = "done" /\ result.type = "sb3"
       ELSE IF "objName" \in PayloadMembers(fed[1]) THEN pc = "done" /\ result.type = "sb2"
       ELSE pc = "failed" /\ error = "AmbiguousOrUnknownProjectType"

\* The input is a blob that is no zip, can be read, and whose text matches none
\* of the expressions: such as a raw Scratch 1 binary.
IsRawBinaryInput == IsTextInput /\ input.readable /\ matchCount(input.text) = 0

Holds(p) ==
  CASE p = 1 -> input.text.chunks # <<>>
    [] p = 2 -> input.text.p4project # <<>>
    [] p = 3 -> input.text.base85decode # <<>> \/ input.text.encodedProjectData # <<>>
    [] p = 4 -> \/ input.text.getProjectData # <<>>
                \/ input.text.varProject # <<>>
                \/ input.text.packagerProjectData # <<>>
    [] p = 5 -> input.text.initOptions # <<>>
    [] OTHER -> input.text.legacyJSON # <<>>

\* C6: on a text, the six patterns are tried in their fixed order and the
\* outcome, a result or an error, is that of the lowest-numbered pattern the
\* text holds; no later pattern is tried once one matched, also when its
\* decoding failed; with none held the call fails with the 'not a zip and no
\* project found' error.
C6_FirstMatchWins ==
  /\ (pc = "ladder") =>
       /\ evaluated = 1..(step - 1)
       /\ \A p \in evaluated : ~Holds(p)
  /\ (Ended /\ IsTextInput /\ input.readable) =>
       IF \E p \in 1..6 : Holds(p)
         THEN LET first == CHOOSE p \in 1..6 : Holds(p) /\ \A q \in 1..(p - 1) : ~Holds(q)
              IN  /\ via = PatternNames[first]
                  /\ evaluated = 1..first
                  /\ error = patternOutcome(first, input.text).err
                  /\ pc = "done" =>
                       result = [type |-> patternOutcome(first, input.text).type,
                                 data |-> patternOutcome(first, input.text).data]
         ELSE pc = "failed" /\ error = "NoProjectFound" /\ evaluated = 1..6

\* C6 witness: pattern 1 matched and its decoding failed while a later pattern
\* was held too.
C6_Witness ==
  /\ pc = "failed"
  /\ IsTextInput
  /\ via = "decodeChunk"
  /\ error = "RangeError"
  /\ \E p \in 2..6 : Holds(p)

LabeledErrors ==
  { "AmbiguousOrUnknownProjectType", "DataURINotBase64", "ZipMissingProject",
    "NoProjectFound", "BlobReadFailure" }

\* C9: a call that returns nothing fails with one of the five labeled errors.
C9_OnlyLabeledErrors == (pc = "failed") => error \in LabeledErrors

\* C10: a returned sb2 or sb3 payload is a zip archive with a project.json
\* entry at its root.
C10_ProjectJSONAtRoot ==
  (pc = "done" /\ result.type \in {"sb2", "sb3"}) =>
    /\ unzipOrNull(result.data) # Null
    /\ \E k \in 1..Len(unzipOrNull(result.data).files) :
         /\ unzipOrNull(result.data).files[k].name = n_project_json
         /\ ~unzipOrNull(result.data).files[k].dir

====
